---- MODULE Spec2Model ----
(***************************************************************************)
(* Model of the AI-Scientist configuration wizard                          *)
(* (config_ai_scientist.py) and launcher (launch_ai_scientist.py).         *)
(*                                                                         *)
(* Python strings are sequences of one-character strings, so that strip(), *)
(* isdigit(), len(), int(), float(), str() and join() are computed.  A     *)
(* Python dict is a function from keys to values; {} is the function with  *)
(* empty domain.                                                           *)
(***************************************************************************)
EXTENDS Integers, Sequences, FiniteSets, TLC

(***************************************************************************)
(* Bounds of the model.                                                    *)
(***************************************************************************)
\* how many rejected answers one run of the wizard may give
MaxReprompts == 2
\* largest number of parallel processes a record of the launcher asks for
MaxParallel == 3
\* largest exit status of the downstream process
MaxChildStatus == 2

(***************************************************************************)
(* Python values.                                                          *)
(***************************************************************************)
None == [none |-> TRUE]
NoFile == [nofile |-> TRUE]
EmptyDict == [k \in {} |-> TRUE]
\* the value of an environment variable that is not set: no Python string,
\* since "unset" is no character
Unset == <<"unset">>

\* the ASCII digits; "sup2" stands for U+00B2, for which str.isdigit() is
\* True and int() raises ValueError
AsciiDigits == {"0", "1", "2", "3", "4", "5", "6", "7", "8", "9"}
UnicodeDigits == AsciiDigits \cup {"sup2"}

DigitValue(c) ==
    CASE c = "0" -> 0 [] c = "1" -> 1 [] c = "2" -> 2 [] c = "3" -> 3
      [] c = "4" -> 4 [] c = "5" -> 5 [] c = "6" -> 6 [] c = "7" -> 7
      [] c = "8" -> 8 [] c = "9" -> 9

DigitChar(d) ==
    CASE d = 0 -> "0" [] d = 1 -> "1" [] d = 2 -> "2" [] d = 3 -> "3"
      [] d = 4 -> "4" [] d = 5 -> "5" [] d = 6 -> "6" [] d = 7 -> "7"
      [] d = 8 -> "8" [] d = 9 -> "9"

RECURSIVE lstrip(_)
lstrip(s) == IF Len(s) > 0 /\ Head(s) = " " THEN lstrip(Tail(s)) ELSE s

RECURSIVE rstrip(_)
rstrip(s) ==
    IF Len(s) > 0 /\ s[Len(s)] = " " THEN rstrip(SubSeq(s, 1, Len(s) - 1)) ELSE s

\* str.strip()
strip(s) == rstrip(lstrip(s))

\* bool(x) of a str
truthy(s) == Len(s) > 0

\* str.isdigit()
isdigit(s) == Len(s) > 0 /\ \A i \in 1..Len(s) : s[i] \in UnicodeDigits

\* int(s) raises ValueError
IntRaises(s) == LET t == strip(s) IN
    Len(t) = 0 \/ \E i \in 1..Len(t) : t[i] \notin AsciiDigits

RECURSIVE DigitsValue(_)
DigitsValue(s) ==
    IF Len(s) = 0 THEN 0
    ELSE 10 * DigitsValue(SubSeq(s, 1, Len(s) - 1)) + DigitValue(s[Len(s)])

\* int(s), where it does not raise
int(s) == DigitsValue(strip(s))

\* str(i) of a non-negative int
RECURSIVE str(_)
str(i) == IF i < 10 THEN <<DigitChar(i)>> ELSE str(i \div 10) \o <<DigitChar(i % 10)>>

\* sep.join(parts)
RECURSIVE join(_, _)
join(sep, parts) ==
    IF Len(parts) = 0 THEN <<>>
    ELSE IF Len(parts) = 1 THEN parts[1]
    ELSE parts[1] \o sep \o join(sep, Tail(parts))

\* [f(i) for i in range(n)] with f = str
RangeStrs(n) == [i \in 1..n |-> str(i - 1)]

\* float(s): sign, digits, optional point and digits, or "nan"; anything
\* else raises ValueError.  The value is num/den with the sign.
FloatParse(s) ==
    LET t == strip(s)
        neg == Len(t) > 0 /\ t[1] = "-"
        u == IF neg THEN Tail(t) ELSE t
        dots == {i \in 1..Len(u) : u[i] = "."}
        p == IF dots = {} THEN Len(u) + 1 ELSE CHOOSE i \in dots : TRUE
        ip == SubSeq(u, 1, p - 1)
        fp == SubSeq(u, p + 1, Len(u))
        alldig(x) == \A i \in 1..Len(x) : x[i] \in AsciiDigits
    IN  IF t = <<"n", "a", "n">> THEN [kind |-> "nan"]
        ELSE IF Cardinality(dots) <= 1 /\ alldig(ip) /\ alldig(fp)
                /\ Len(ip) + Len(fp) > 0
        THEN [kind |-> "num", neg |-> neg,
              num |-> DigitsValue(ip \o fp), den |-> 10 ^ Len(fp)]
        ELSE [kind |-> "ValueError"]

\* 0 <= float(x) <= 1; an exception in a validator rejects the answer
TemperatureInRange(x) ==
    LET f == FloatParse(x) IN
    /\ f.kind = "num"
    /\ (f.neg => f.num = 0)
    /\ f.num <= f.den

(***************************************************************************)
(* String literals of the two programs.                                    *)
(***************************************************************************)
DEFAULT_CONFIG_PATH == "config/ai_scientist_config.json"
CONFIG_PATH == "config/ai_scientist_config.json"
\* a second location, the one a --config argument can name
OtherPath == "other/config.json"
Paths == {CONFIG_PATH, OtherPath}

CustomProvider == "Custom Provider"
ProviderTypes == {"OpenAI Compatible", "Anthropic", CustomProvider}
ExperimentTypes == {"nanoGPT", "nanoGPT_lite", "custom"}

\* n copies of the character c
Rep(c, n) == [i \in 1..n |-> c]

(***************************************************************************)
(* The wizard: questions, the answers a user may type, the validators.     *)
(***************************************************************************)
\* the question list of each inquirer.prompt call
Questions(c) ==
    CASE c = "use_existing" -> <<"use_existing">>
      [] c = "provider_type" -> <<"provider_type">>
      [] c = "custom" -> <<"api_base_url", "api_key", "model_name",
                           "max_tokens", "supports_functions", "temperature">>
      [] c = "experiment" -> <<"num_ideas", "experiment_type",
                               "parallel_processes", "improvement_enabled">>
      [] c = "system" -> <<"temp_directory", "use_gpu">>

\* validate_api_key
validate_api_key(key) == truthy(key) /\ Len(strip(key)) > 10

\* the validate= of each question; Confirm and List questions have none
Validate(q, x) ==
    CASE q = "api_base_url" -> truthy(strip(x))
      [] q = "api_key" -> validate_api_key(x)
      [] q = "model_name" -> truthy(strip(x))
      [] q = "max_tokens" -> isdigit(x)
      [] q = "temperature" -> TemperatureInRange(x)
      [] q = "num_ideas" -> isdigit(x)
      [] q = "parallel_processes" -> isdigit(x)
      [] q = "temp_directory" -> truthy(strip(x))
      [] OTHER -> TRUE

\* the values of parallel_processes the wizard accepts, up to the bound
ParallelAnswers == {str(n) : n \in 0..MaxParallel} \cup {<<"sup2">>}

\* what the user may type at each question
Answers(q) ==
    CASE q \in {"use_existing", "supports_functions", "improvement_enabled",
                "use_gpu"} -> BOOLEAN
      [] q = "provider_type" -> ProviderTypes
      [] q = "experiment_type" -> ExperimentTypes
      [] q = "api_base_url" -> {<<>>, <<" ">>, <<"u">>}
      [] q = "api_key" ->
            {<<>>, Rep("k", 10), <<" ">> \o Rep("k", 10), Rep("k", 11),
             Rep("k", 11) \o <<" ">>}
      [] q = "model_name" -> {<<>>, <<" ">>, <<"f", "o", "o">>}
      [] q = "max_tokens" ->
            {<<>>, <<"0">>, <<"8", "1", "9", "2">>, <<"-", "1">>, <<"x">>}
      [] q = "temperature" ->
            {<<>>, <<"0", ".", "7">>, <<"0">>, <<"1">>, <<"1", ".", "5">>,
             <<"-", "0", ".", "1">>, <<"n", "a", "n">>, <<"a">>}
      [] q = "num_ideas" -> {<<>>, <<"5", "0">>, <<"x">>}
      [] q = "parallel_processes" ->
            ParallelAnswers \cup {<<>>, <<"-", "1">>}
      [] q = "temp_directory" -> {<<>>, <<" ">>, <<"/", "t">>}

(***************************************************************************)
(* State.                                                                  *)
(***************************************************************************)
VARIABLES
    fs,               \* the files: path -> record, or NoFile
    host,             \* platform.system()
    \* the wizard (config_ai_scientist.py)
    bpc,              \* "idle", "start", "prompt", "save", "done"
    call,             \* the inquirer.prompt call in progress
    qi,               \* index of the question being asked in that call
    ans,              \* the answers of that call so far
    existing_config,  \* main's existing_config
    answers,          \* main's answers: the result of the use-existing prompt
    bconfig,          \* the groups of main's config evaluated so far
    bexit,            \* exit status, NoExit while running
    bout,             \* what was printed
    prompted,         \* the questions shown to the user
    reprompts,        \* rejected answers so far
    interruptedAtPrompt, \* the user pressed Ctrl-C inside a prompt
    fs0,              \* the files when the run began
    \* the launcher (launch_ai_scientist.py)
    lpc,              \* position in main
    args,             \* the parsed arguments
    onPath,           \* the commands shutil.which resolves
    environ,          \* os.environ
    environ0,         \* os.environ when the run began
    config,           \* main's config
    cmd,              \* main's cmd
    invocations,      \* calls of subprocess.run so far
    childStatus,      \* exit status of the child, NoExit before it ends
    lexit,            \* exit status, NoExit while running
    lout,             \* what was printed
    configRead        \* the path load_configuration opened, or None

bvars == <<bpc, call, qi, ans, existing_config, answers, bconfig, bexit, bout,
           prompted, reprompts, interruptedAtPrompt>>
lvars == <<lpc, args, onPath, environ, environ0, config, cmd, invocations,
           childStatus, lexit, lout, configRead>>
vars == <<fs, host, fs0, bvars, lvars>>

NoExit == -1

is_windows == host = "Windows"

(***************************************************************************)
(* The wizard, config_ai_scientist.py.                                     *)
(*                                                                         *)
(* inquirer.prompt catches a KeyboardInterrupt raised while a question is  *)
(* on screen and returns None (raise_keyboard_interrupt defaults to        *)
(* False); a KeyboardInterrupt raised between two prompt calls reaches     *)
(* the handler at the bottom of the file.                                  *)
(***************************************************************************)
LauncherIdle ==
    /\ lpc = "idle" /\ args = EmptyDict /\ onPath = {} /\ environ = EmptyDict
    /\ environ0 = EmptyDict /\ config = None /\ cmd = <<>> /\ invocations = 0
    /\ childStatus = NoExit /\ lexit = NoExit /\ lout = {} /\ configRead = None

\* a complete record, as main assembles it (lines 183-189)
Record(provider, experiment, system, platform) ==
    [llm_provider |-> provider, experiment |-> experiment, system |-> system,
     platform |-> platform, version |-> "1.0"]

\* the settings a Custom Provider record holds
CustomSettings(url, key, model, tokens, functions, temperature) ==
    [api_base_url |-> url, api_key |-> key, model_name |-> model,
     max_tokens |-> tokens, supports_functions |-> functions,
     temperature |-> temperature]

ExperimentSettings(ideas, type, parallel, improvement) ==
    [num_ideas |-> ideas, experiment_type |-> type,
     parallel_processes |-> parallel, improvement_enabled |-> improvement]

SystemSettings(dir, gpu) == [temp_directory |-> dir, use_gpu |-> gpu]

\* records of earlier runs of the wizard that a run may find on disk
ExistingRecords ==
    { Record([provider_type |-> "Anthropic", settings |-> EmptyDict],
             ExperimentSettings(<<"5", "0">>, "nanoGPT", <<"0">>, TRUE),
             SystemSettings(<<"/", "t">>, TRUE), "Linux"),
      Record([provider_type |-> CustomProvider,
              settings |-> CustomSettings(<<"u">>, Rep("k", 11),
                                          <<"f", "o", "o">>,
                                          <<"8", "1", "9", "2">>, FALSE,
                                          <<"0", ".", "7">>)],
             ExperimentSettings(<<"5", "0">>, "custom", <<"3">>, FALSE),
             SystemSettings(<<"/", "t">>, FALSE), "Windows") }

InitBuilder ==
    /\ host \in {"Linux", "Windows"}
    /\ fs \in [Paths -> ExistingRecords \cup {NoFile}]
    /\ fs[OtherPath] = NoFile
    /\ fs0 = fs
    /\ bpc = "start" /\ call = "none" /\ qi = 0 /\ ans = EmptyDict
    /\ existing_config = EmptyDict /\ answers = EmptyDict
    /\ bconfig = EmptyDict
    /\ bexit = NoExit /\ bout = {} /\ prompted = {} /\ reprompts = 0
    /\ interruptedAtPrompt = FALSE
    /\ LauncherIdle

\* load_existing_config
load_existing_config ==
    IF fs[DEFAULT_CONFIG_PATH] # NoFile THEN fs[DEFAULT_CONFIG_PATH] ELSE EmptyDict

\* control enters inquirer.prompt(Questions(c)): the first question is shown
EnterPrompt(c) ==
    /\ bpc' = "prompt" /\ call' = c /\ qi' = 1 /\ ans' = EmptyDict
    /\ prompted' = prompted \cup {Questions(c)[1]}
    /\ bexit' = bexit /\ bout' = bout

\* the process ends with the given status after printing msgs
BuilderExit(status, msgs) ==
    /\ bpc' = "done" /\ call' = "none" /\ qi' = 0 /\ ans' = EmptyDict
    /\ prompted' = prompted
    /\ bexit' = status /\ bout' = bout \cup msgs

\* an exception that is not a KeyboardInterrupt leaves through the
\* interpreter: traceback, exit status 1
Uncaught(exc) == BuilderExit(1, {"Traceback: " \o exc})

\* line 180 with the answer ignored: the wizard always rebuilds
UseExisting_Ignored(r) == FALSE

\* line 180
UseExisting(r) == r.use_existing

\* the code that follows the return of inquirer.prompt with result r
AfterPrompt(c, r) ==
    CASE c = "use_existing" ->
            \* main, lines 179-181, then configure_llm_provider
            /\ bconfig' = bconfig
            /\ answers' = r
            /\ IF r = None THEN Uncaught("TypeError")
               ELSE IF UseExisting(r) THEN BuilderExit(0, {})
               ELSE EnterPrompt("provider_type")
      [] c = "provider_type" ->
            \* configure_llm_provider, lines 63-102
            /\ answers' = answers
            /\ IF r = None THEN bconfig' = bconfig /\ Uncaught("TypeError")
               ELSE IF r.provider_type = CustomProvider
               THEN /\ bconfig' = [provider_type |-> r.provider_type]
                    /\ EnterPrompt("custom")
               ELSE /\ bconfig' = [llm_provider |->
                           [provider_type |-> r.provider_type,
                            settings |-> EmptyDict]]
                    /\ EnterPrompt("experiment")
      [] c = "custom" ->
            \* lines 96-102: provider_config.update(custom_answers)
            /\ answers' = answers
            /\ IF r = None THEN bconfig' = bconfig /\ Uncaught("TypeError")
               ELSE /\ bconfig' = [llm_provider |->
                           [provider_type |-> bconfig.provider_type,
                            settings |-> r]]
                    /\ EnterPrompt("experiment")
      [] c = "experiment" ->
            \* configure_experiment_settings returns the result as it is
            /\ answers' = answers
            /\ bconfig' = [llm_provider |-> bconfig.llm_provider,
                           experiment |-> r]
            /\ EnterPrompt("system")
      [] c = "system" ->
            \* configure_system_settings returns the result as it is
            /\ answers' = answers
            /\ bconfig' = [llm_provider |-> bconfig.llm_provider,
                           experiment |-> bconfig.experiment, system |-> r]
            /\ bpc' = "save" /\ call' = "none" /\ qi' = 0 /\ ans' = EmptyDict
            /\ prompted' = prompted /\ bexit' = bexit /\ bout' = bout

\* main up to the first prompt (lines 166-179)
BuilderStart ==
    /\ bpc = "start"
    /\ existing_config' = load_existing_config
    /\ IF existing_config' # EmptyDict
       THEN EnterPrompt("use_existing")
       ELSE EnterPrompt("provider_type")
    /\ UNCHANGED <<fs, host, fs0, answers, bconfig, reprompts,
                   interruptedAtPrompt, lvars>>

\* the user types an answer the question's validator rejects: the same
\* question is asked again
AnswerRejected ==
    /\ bpc = "prompt"
    /\ reprompts < MaxReprompts
    /\ \E x \in Answers(Questions(call)[qi]) : ~Validate(Questions(call)[qi], x)
    /\ reprompts' = reprompts + 1
    /\ UNCHANGED <<fs, host, fs0, bpc, call, qi, ans, existing_config, answers,
                   bconfig, bexit, bout, prompted, interruptedAtPrompt, lvars>>

\* the user types an answer the validator accepts: the next question of the
\* call is shown, or the call returns the answers
AnswerAccepted ==
    /\ bpc = "prompt"
    /\ \E x \in Answers(Questions(call)[qi]) :
          /\ Validate(Questions(call)[qi], x)
          /\ LET q == Questions(call)[qi]
                 a == [k \in DOMAIN ans \cup {q} |->
                          IF k = q THEN x ELSE ans[k]]
             IN  IF qi < Len(Questions(call))
                 THEN /\ qi' = qi + 1 /\ ans' = a
                      /\ prompted' = prompted \cup {Questions(call)[qi + 1]}
                      /\ UNCHANGED <<bpc, call, answers, bconfig, bexit, bout>>
                 ELSE AfterPrompt(call, a)
    /\ UNCHANGED <<fs, host, fs0, existing_config, reprompts,
                   interruptedAtPrompt, lvars>>

\* Ctrl-C while a question is on screen: inquirer.prompt returns None
InterruptAtPrompt ==
    /\ bpc = "prompt"
    /\ interruptedAtPrompt' = TRUE
    /\ AfterPrompt(call, None)
    /\ UNCHANGED <<fs, host, fs0, existing_config, reprompts, lvars>>

\* Ctrl-C outside inquirer.prompt: lines 196-198
InterruptBetweenPrompts ==
    /\ bpc \in {"start", "save"}
    /\ BuilderExit(1, {"Configuration cancelled."})
    /\ UNCHANGED <<fs, host, fs0, existing_config, answers, bconfig,
                   reprompts, interruptedAtPrompt, lvars>>

\* lines 183-191: the record is assembled and written
save_configuration ==
    /\ bpc = "save"
    /\ fs' = [fs EXCEPT ![DEFAULT_CONFIG_PATH] =
                Record(bconfig.llm_provider, bconfig.experiment,
                       bconfig.system, host)]
    /\ BuilderExit(0, {"Configuration saved"})
    /\ UNCHANGED <<host, fs0, existing_config, answers, bconfig, reprompts,
                   interruptedAtPrompt, lvars>>

NextBuilder ==
    \/ BuilderStart
    \/ AnswerRejected
    \/ AnswerAccepted
    \/ InterruptAtPrompt
    \/ InterruptBetweenPrompts
    \/ save_configuration

SpecBuilder == InitBuilder /\ [][NextBuilder]_vars

(***************************************************************************)
(* The launcher, launch_ai_scientist.py.                                   *)
(***************************************************************************)
BuilderIdle ==
    /\ bpc = "idle" /\ call = "none" /\ qi = 0 /\ ans = EmptyDict
    /\ existing_config = EmptyDict /\ answers = EmptyDict
    /\ bconfig = EmptyDict /\ bexit = NoExit
    /\ bout = {} /\ prompted = {} /\ reprompts = 0
    /\ interruptedAtPrompt = FALSE

EnvVars == {"CUSTOM_API_KEY", "CUSTOM_API_BASE_URL", "TEMP", "TMP",
            "CUDA_VISIBLE_DEVICES"}

\* the experiment group of a written record: the answers, or None when the
\* prompt was interrupted
WrittenExperiments ==
    {None} \cup
    {ExperimentSettings(<<"5", "0">>, t, p, i) :
        t \in ExperimentTypes, p \in ParallelAnswers, i \in BOOLEAN}

WrittenSystems ==
    {None} \cup {SystemSettings(<<"/", "t">>, g) : g \in BOOLEAN}

WrittenProviders ==
    {[provider_type |-> t, settings |-> EmptyDict] :
        t \in ProviderTypes \ {CustomProvider}}
    \cup
    {[provider_type |-> CustomProvider,
      settings |-> CustomSettings(<<"u">>, Rep("k", 11), <<"f", "o", "o">>,
                                  <<"8", "1", "9", "2">>, FALSE,
                                  <<"0", ".", "7">>)]}

\* records the wizard writes
WrittenRecords ==
    {Record(p, e, s, "Linux") :
        p \in WrittenProviders, e \in WrittenExperiments, s \in WrittenSystems}

\* records edited by hand: a provider that is not Custom, with a model name
EditedRecords ==
    {Record([provider_type |-> "OpenAI Compatible",
             settings |-> [model_name |-> <<"n", "a", "n", "o">>]],
            ExperimentSettings(<<"5", "0">>, "nanoGPT", p, i),
            SystemSettings(<<"/", "t">>, TRUE), "Linux") :
        p \in {<<"0">>, <<"1">>}, i \in BOOLEAN}

\* the record at the second location
OtherRecord ==
    Record([provider_type |-> CustomProvider,
            settings |-> CustomSettings(<<"o">>, Rep("o", 11), <<"o">>,
                                        <<"1">>, TRUE, <<"1">>)],
           ExperimentSettings(<<"1">>, "custom", <<"1">>, FALSE),
           SystemSettings(<<"/", "o">>, TRUE), "Linux")

InitLauncher ==
    /\ host \in {"Linux", "Windows"}
    /\ fs \in [Paths -> WrittenRecords \cup EditedRecords
                          \cup {OtherRecord, NoFile}]
    /\ fs[CONFIG_PATH] # OtherRecord
    /\ fs[OtherPath] \in {OtherRecord, NoFile}
    /\ fs0 = fs
    /\ BuilderIdle
    /\ lpc = "main" /\ args = EmptyDict
    /\ onPath \in SUBSET {"python", "git", "python.exe", "git.exe"}
    /\ environ \in [EnvVars -> {Unset, <<"7">>}]
    /\ \A v \in EnvVars \ {"CUDA_VISIBLE_DEVICES"} : environ[v] = Unset
    /\ environ0 = environ
    /\ config = None /\ cmd = <<>> /\ invocations = 0
    /\ childStatus = NoExit /\ lexit = NoExit /\ lout = {} /\ configRead = None

\* what the launcher prints
Msg_NotFound == "Configuration not found. Please run config_ai_scientist.py first."
Msg_Debug == "Debug: Launch command:"
Msg_ChildFailed == "Error running AI Scientist"
Msg_Cancelled == "Experiment cancelled by user."

\* the process ends with the given status after printing msgs
LauncherExit(status, msgs) ==
    /\ lpc' = "done" /\ lexit' = status /\ lout' = lout \cup msgs

\* line 28 with the version-control tool forgotten
required_commands_PythonOnly == <<"python">>

\* validate_environment, line 28
required_commands == <<"python", "git">>

\* validate_environment, line 30
cmd_name(c) ==
    IF is_windows
    THEN CASE c = "python" -> "python.exe" [] c = "git" -> "git.exe"
    ELSE c

\* shutil.which
which(name) == name \in onPath

\* validate_environment: the commands reported missing, in the order of the
\* loop; the first one ends the process
MissingCommands ==
    SelectSeq(required_commands, LAMBDA c : ~which(cmd_name(c)))

\* load_configuration falling back to default settings when no file exists
load_configuration_Defaults ==
    IF fs[CONFIG_PATH] = NoFile
    THEN [config |->
            Record([provider_type |-> "OpenAI Compatible",
                    settings |-> [model_name |-> <<"n", "a", "n", "o">>]],
                   ExperimentSettings(<<"5", "0">>, "nanoGPT", <<"0">>, TRUE),
                   SystemSettings(<<"/", "t">>, TRUE), "Linux")]
    ELSE [config |-> fs[CONFIG_PATH]]

\* load_configuration: the record, or the exit of line 21
load_configuration ==
    IF fs[CONFIG_PATH] = NoFile
    THEN [exit |-> 1]
    ELSE [config |-> fs[CONFIG_PATH]]

\* lines 50-52
CudaVisibleDevices(n) == join(<<",">>, RangeStrs(n))

\* line 49 without the use_gpu test
GpuRequested_AnyDevice(cfg) == int(cfg.experiment.parallel_processes) > 0

\* line 49
GpuRequested(cfg) ==
    int(cfg.experiment.parallel_processes) > 0 /\ cfg.system.use_gpu

\* setup_environment: os.environ when it returns or raises, and the
\* exception ("none" when it returns)
setup_environment(env, cfg) ==
    LET ps == cfg.llm_provider.settings
        e1 == IF cfg.llm_provider.provider_type = CustomProvider
              THEN [env EXCEPT !["CUSTOM_API_KEY"] = ps.api_key,
                               !["CUSTOM_API_BASE_URL"] = ps.api_base_url]
              ELSE env
    IN  IF cfg.system = None THEN [env |-> e1, exc |-> "TypeError"]
        ELSE
        LET e2 == [e1 EXCEPT !["TEMP"] = cfg.system.temp_directory]
            e3 == IF is_windows
                  THEN [e2 EXCEPT !["TMP"] = cfg.system.temp_directory]
                  ELSE e2
        IN  IF cfg.experiment = None THEN [env |-> e3, exc |-> "TypeError"]
            ELSE IF IntRaises(cfg.experiment.parallel_processes)
            THEN [env |-> e3, exc |-> "ValueError"]
            ELSE IF GpuRequested(cfg)
            THEN [env |-> [e3 EXCEPT !["CUDA_VISIBLE_DEVICES"] =
                     CudaVisibleDevices(int(cfg.experiment.parallel_processes))],
                  exc |-> "none"]
            ELSE [env |-> e3, exc |-> "none"]

\* lines 70-72: the value after --model
ModelArgument(provider) ==
    IF provider.provider_type = CustomProvider
    THEN <<"c", "u", "s", "t", "o", "m", "/">> \o provider.settings.model_name
    ELSE provider.settings.model_name

\* lines 78-79
ImprovementFlag(experiment) ==
    IF experiment.improvement_enabled
    THEN << <<"-", "-", "i", "m", "p", "r", "o", "v", "e", "m", "e", "n", "t">> >>
    ELSE <<>>

Flag_model == <<"-", "-", "m", "o", "d", "e", "l">>
Flag_experiment == <<"-", "-", "e", "x", "p", "e", "r", "i", "m", "e", "n", "t">>
Flag_num_ideas == <<"-", "-", "n", "u", "m", "-", "i", "d", "e", "a", "s">>
Flag_parallel == <<"-", "-", "p", "a", "r", "a", "l", "l", "e", "l">>
Word_python == <<"p", "y", "t", "h", "o", "n">>
Word_launch_scientist == <<"l", "a", "u", "n", "c", "h", "_", "s", "c", "i",
                           "e", "n", "t", "i", "s", "t", ".", "p", "y">>
\* the experiment types as Python strings
TypeWord(t) ==
    CASE t = "nanoGPT" -> <<"n", "a", "n", "o", "G", "P", "T">>
      [] t = "nanoGPT_lite" -> <<"n", "a", "n", "o", "G", "P", "T", "_",
                                 "l", "i", "t", "e">>
      [] t = "custom" -> <<"c", "u", "s", "t", "o", "m">>

\* build_launch_command: the list, or the exception it raises
build_launch_command(cfg) ==
    IF "model_name" \notin DOMAIN cfg.llm_provider.settings
    THEN [exc |-> "KeyError", cmd |-> <<>>]
    ELSE IF cfg.experiment = None
    THEN [exc |-> "TypeError", cmd |-> <<>>]
    ELSE [exc |-> "none",
          cmd |-> <<Word_python, Word_launch_scientist,
                    Flag_model, ModelArgument(cfg.llm_provider),
                    Flag_experiment, TypeWord(cfg.experiment.experiment_type),
                    Flag_num_ideas, cfg.experiment.num_ideas,
                    Flag_parallel, cfg.experiment.parallel_processes>>
                  \o ImprovementFlag(cfg.experiment)]

\* subprocess.run without check=True: the child's status is dropped
ExitAfterChild_Unchecked(status) == 0

\* subprocess.run(cmd, check=True): what main does when the child ends
\* with the given status (lines 106-109)
ExitAfterChild(status) == IF status # 0 THEN 1 ELSE 0

\* parse_arguments and the banner (lines 85-88)
ParseArguments ==
    /\ lpc = "main"
    /\ \E path \in Paths, debug \in BOOLEAN :
          args' = [config |-> path, debug |-> debug]
    /\ lpc' = "validate_environment"
    /\ UNCHANGED <<fs, host, fs0, bvars, onPath, environ, environ0, config,
                   cmd, invocations, childStatus, lexit, lout, configRead>>

\* line 91
ValidateEnvironment ==
    /\ lpc = "validate_environment"
    /\ IF MissingCommands # <<>>
       THEN LauncherExit(1, {"Error: " \o MissingCommands[1] \o " not found in PATH"})
       ELSE lpc' = "load_configuration" /\ UNCHANGED <<lexit, lout>>
    /\ UNCHANGED <<fs, host, fs0, bvars, args, onPath, environ, environ0,
                   config, cmd, invocations, childStatus, configRead>>

\* line 94
LoadConfiguration ==
    /\ lpc = "load_configuration"
    /\ IF "exit" \in DOMAIN load_configuration
       THEN /\ LauncherExit(load_configuration.exit,
                  {Msg_NotFound})
            /\ UNCHANGED <<config, configRead>>
       ELSE /\ config' = load_configuration.config
            /\ configRead' = [path |-> CONFIG_PATH]
            /\ lpc' = "setup_environment"
            /\ UNCHANGED <<lexit, lout>>
    /\ UNCHANGED <<fs, host, fs0, bvars, args, onPath, environ, environ0,
                   cmd, invocations, childStatus>>

\* line 97
SetupEnvironment ==
    /\ lpc = "setup_environment"
    /\ LET r == setup_environment(environ, config) IN
          /\ environ' = r.env
          /\ IF r.exc # "none"
             THEN LauncherExit(1, {"Traceback (setup_environment): " \o r.exc})
             ELSE lpc' = "build_launch_command" /\ UNCHANGED <<lexit, lout>>
    /\ UNCHANGED <<fs, host, fs0, bvars, args, onPath, environ0, config, cmd,
                   invocations, childStatus, configRead>>

\* lines 100-103
BuildLaunchCommand ==
    /\ lpc = "build_launch_command"
    /\ LET r == build_launch_command(config) IN
          IF r.exc # "none"
          THEN /\ LauncherExit(1, {"Traceback (build_launch_command): " \o r.exc})
               /\ cmd' = cmd
          ELSE /\ cmd' = r.cmd
               /\ lpc' = "subprocess.run"
               /\ lout' = IF args.debug
                          THEN lout \cup {Msg_Debug}
                          ELSE lout
               /\ lexit' = lexit
    /\ UNCHANGED <<fs, host, fs0, bvars, args, onPath, environ, environ0,
                   config, invocations, childStatus, configRead>>

\* line 106: the child is started and main waits for it
SubprocessRun ==
    /\ lpc = "subprocess.run"
    /\ invocations' = invocations + 1
    /\ lpc' = "waiting"
    /\ UNCHANGED <<fs, host, fs0, bvars, args, onPath, environ, environ0,
                   config, cmd, childStatus, lexit, lout, configRead>>

\* the child ends; lines 106-109
ChildExits ==
    /\ lpc = "waiting"
    /\ \E status \in 0..MaxChildStatus :
          /\ childStatus' = status
          /\ LauncherExit(ExitAfterChild(status),
                IF status # 0 THEN {Msg_ChildFailed} ELSE {})
    /\ UNCHANGED <<fs, host, fs0, bvars, args, onPath, environ, environ0,
                   config, cmd, invocations, configRead>>

\* Ctrl-C while the child runs; lines 110-112
InterruptDuringRun ==
    /\ lpc = "waiting"
    /\ LauncherExit(1, {Msg_Cancelled})
    /\ UNCHANGED <<fs, host, fs0, bvars, args, onPath, environ, environ0,
                   config, cmd, invocations, childStatus, configRead>>

NextLauncher ==
    \/ ParseArguments
    \/ ValidateEnvironment
    \/ LoadConfiguration
    \/ SetupEnvironment
    \/ BuildLaunchCommand
    \/ SubprocessRun
    \/ ChildExits
    \/ InterruptDuringRun

SpecLauncher == InitLauncher /\ [][NextLauncher]_vars

(***************************************************************************)
(* Properties of the launcher, checked under SpecLauncher.                 *)
(***************************************************************************)
Msg_BuildKeyError == "Traceback (build_launch_command): KeyError"

\* both required executables resolve on this host
PrerequisitesPresent ==
    IF host = "Windows"
    THEN {"python.exe", "git.exe"} \subseteq onPath
    ELSE {"python", "git"} \subseteq onPath

\* a record the wizard writes when no prompt is interrupted and the
\* process count is typed in ASCII digits
CompleteWrittenRecords ==
    {r \in WrittenRecords :
        /\ r.experiment # None /\ r.system # None
        /\ ~IntRaises(r.experiment.parallel_processes)}

\* setup_environment has returned
SetupReturned ==
    \/ lpc \in {"build_launch_command", "subprocess.run", "waiting"}
    \/ lpc = "done" /\ (invocations > 0 \/ Msg_BuildKeyError \in lout)

\* build_launch_command has been called
BuildCalled ==
    \/ lpc \in {"subprocess.run", "waiting"}
    \/ lpc = "done" /\ (invocations > 0 \/ Msg_BuildKeyError \in lout)

\* C1 (as stated): a finished run has invoked the downstream process exactly
\* once, or not at all with a diagnostic and exit status 1; and with both
\* executables present every record the wizard writes leads to exactly one
\* invocation.
C1_OneInvocationOrDiagnostic ==
    lpc = "done" =>
        /\ \/ invocations = 1
           \/ invocations = 0 /\ lexit = 1 /\ lout \ {Msg_Debug} # {}
        /\ (PrerequisitesPresent /\ fs[CONFIG_PATH] \in CompleteWrittenRecords
               => invocations = 1)

\* the command C3 describes: the model name, bare or behind "custom/"
ClaimedModelName(cfg) ==
    IF "model_name" \in DOMAIN cfg.llm_provider.settings
    THEN cfg.llm_provider.settings.model_name
    ELSE <<>>

ClaimedCommand(cfg) ==
    << <<"p", "y", "t", "h", "o", "n">>, Word_launch_scientist,
       Flag_model,
       IF cfg.llm_provider.provider_type = "Custom Provider"
       THEN <<"c", "u", "s", "t", "o", "m", "/">> \o ClaimedModelName(cfg)
       ELSE ClaimedModelName(cfg),
       Flag_experiment, TypeWord(cfg.experiment.experiment_type),
       Flag_num_ideas, cfg.experiment.num_ideas,
       Flag_parallel, cfg.experiment.parallel_processes >>
    \o (IF cfg.experiment.improvement_enabled = TRUE
        THEN << <<"-", "-", "i", "m", "p", "r", "o", "v", "e", "m", "e", "n", "t">> >>
        ELSE <<>>)

\* C3 (as stated): for every loaded record build_launch_command returns the
\* list interpreter, launch_scientist.py, --model M, --experiment,
\* --num-ideas, --parallel and, iff improvement is enabled, --improvement,
\* with M the model name, prefixed by custom/ for the Custom provider.
C3_CommandShape == BuildCalled => cmd = ClaimedCommand(config)

\* the list "0,1,...,n-1"
RECURSIVE DeviceList(_)
DeviceList(n) ==
    IF n = 1 THEN <<"0">> ELSE DeviceList(n - 1) \o <<",">> \o str(n - 1)

\* C4: after setup_environment, CUDA_VISIBLE_DEVICES is "0,1,...,n-1" when
\* parallel_processes = n > 0 and use_gpu is true; when use_gpu is false or
\* n = 0 the launcher does not set the variable (it is as it was when the
\* run began).
C4_GpuVisibility ==
    SetupReturned =>
        \A n \in 0..MaxParallel :
            config.experiment.parallel_processes = str(n) =>
                /\ (n > 0 /\ config.system.use_gpu
                       => environ["CUDA_VISIBLE_DEVICES"] = DeviceList(n))
                /\ (n = 0 \/ ~config.system.use_gpu
                       => environ["CUDA_VISIBLE_DEVICES"]
                            = environ0["CUDA_VISIBLE_DEVICES"])

C4_Witness ==
    /\ lpc = "waiting"
    /\ config.experiment.parallel_processes = <<"3">>
    /\ config.system.use_gpu
    /\ environ0["CUDA_VISIBLE_DEVICES"] = <<"7">>
    /\ environ["CUDA_VISIBLE_DEVICES"] = <<"0", ",", "1", ",", "2">>

\* C5: when a required executable is missing, a run that has passed the
\* prerequisite check has exited with status 1 without reading the
\* configuration file, setting an environment variable or invoking a
\* subprocess, whether or not a record exists.
C5_PrerequisitesFirst ==
    (~PrerequisitesPresent /\ lpc \notin {"main", "validate_environment"}) =>
        /\ lpc = "done" /\ lexit = 1
        /\ configRead = None /\ config = None
        /\ environ = environ0
        /\ invocations = 0

C5_Witness ==
    /\ lpc = "done" /\ lexit = 1
    /\ host = "Linux" /\ "python" \in onPath /\ "git" \notin onPath
    /\ fs[CONFIG_PATH] \in CompleteWrittenRecords
    /\ configRead = None

\* C7: the launcher does not exit while the child runs; once the child has
\* been invoked the launcher exits 0 iff the child exited 0, a non-zero
\* child status gives the failure diagnostic and exit status 1, and an
\* interrupt during the child's run gives the cancellation message and
\* exit status 1.
C7_ExitFollowsChild ==
    /\ (lpc = "waiting" => lexit = NoExit)
    /\ (lexit = 0 => invocations = 1 /\ childStatus = 0)
    /\ (lpc = "done" /\ invocations = 1 =>
           /\ (lexit = 0 <=> childStatus = 0)
           /\ (childStatus > 0 =>
                  lexit = 1 /\ Msg_ChildFailed \in lout /\ Msg_Cancelled \notin lout)
           /\ (childStatus = NoExit =>
                  lexit = 1 /\ Msg_Cancelled \in lout /\ Msg_ChildFailed \notin lout))

C7_Witness ==
    lpc = "done" /\ invocations = 1 /\ childStatus = 2 /\ lexit = 1

\* C8 (as stated): with --config <path> the record loaded, and the
\* existence check, are those of <path>.
C8_ConfigPathHonoured ==
    /\ (configRead # None =>
           configRead.path = args.config /\ config = fs[args.config])
    /\ (lpc = "done" /\ Msg_NotFound \in lout => fs[args.config] = NoFile)

\* C9: with no record persisted and both executables present, a run that
\* has passed load_configuration has printed the run-the-wizard-first
\* message and exited with status 1, with no settings, no environment
\* variable set and no subprocess invoked.
C9_NoRecordNoLaunch ==
    ((\A p \in Paths : fs[p] = NoFile) /\ PrerequisitesPresent
        /\ lpc \notin {"main", "validate_environment", "load_configuration"}) =>
        /\ lpc = "done" /\ lexit = 1 /\ Msg_NotFound \in lout
        /\ config = None
        /\ environ = environ0
        /\ invocations = 0

C9_Witness ==
    /\ \A p \in Paths : fs[p] = NoFile
    /\ PrerequisitesPresent
    /\ lpc = "done" /\ lexit = 1 /\ Msg_NotFound \in lout

(***************************************************************************)
(* Properties of the wizard, checked under SpecBuilder.                    *)
(***************************************************************************)
Saved == "Configuration saved" \in bout

\* C2 (as stated): a record written after every prompt was answered, rejected
\* answers included, with the Custom provider has a non-empty
\* api_base_url and model_name, an api_key longer than 10, max_tokens > 0
\* and a temperature in [0, 1].
C2_CustomRecordValid ==
    (Saved /\ ~interruptedAtPrompt
       /\ fs[DEFAULT_CONFIG_PATH].llm_provider.provider_type = "Custom Provider") =>
        LET st == fs[DEFAULT_CONFIG_PATH].llm_provider.settings IN
        /\ Len(st.api_base_url) > 0
        /\ Len(st.model_name) > 0
        /\ Len(st.api_key) > 10
        /\ ~IntRaises(st.max_tokens) /\ int(st.max_tokens) > 0
        /\ TemperatureInRange(st.temperature)

\* C6 (as stated): after an interrupt at a prompt the configuration file is
\* as it was before the run, and the process ends with a non-zero status.
C6_InterruptWritesNothing ==
    interruptedAtPrompt =>
        /\ fs = fs0
        /\ (bpc = "done" => bexit # 0)

\* C10: when a record exists at the start, the use-existing question is the
\* first one shown; if the user accepts, the run has ended with status 0,
\* no other question was shown and the file is unchanged; if the user
\* declines and the run ends normally, the questions of all three steps
\* were shown and the file holds the newly assembled record.
C10_ReuseOrRebuild ==
    fs0[DEFAULT_CONFIG_PATH] # NoFile =>
        /\ (prompted # {} => "use_existing" \in prompted)
        /\ (answers = [use_existing |-> TRUE] =>
               /\ bpc = "done" /\ bexit = 0
               /\ prompted = {"use_existing"}
               /\ fs = fs0)
        /\ (answers = [use_existing |-> FALSE] /\ bpc = "done" /\ bexit = 0 =>
               /\ {"provider_type", "num_ideas", "temp_directory"} \subseteq prompted
               /\ Saved
               /\ fs[DEFAULT_CONFIG_PATH] =
                     [llm_provider |-> bconfig.llm_provider,
                      experiment |-> bconfig.experiment,
                      system |-> bconfig.system,
                      platform |-> host, version |-> "1.0"])

C10_Witness ==
    /\ fs0[DEFAULT_CONFIG_PATH] # NoFile
    /\ answers = [use_existing |-> TRUE]
    /\ bpc = "done" /\ bexit = 0 /\ fs = fs0

====
